---- MODULE Spec2Model ----
(***************************************************************************)
(* Model of src/server.py: the Bitcoin mining power tracker's resilience   *)
(* layer.  Route handlers call cached_get(key, fetch_fn); fetch_fn is      *)
(* get_hashrate_data, which tries the source adapters in priority order;   *)
(* the free adapters go through fetch_with_retry.                          *)
(*                                                                         *)
(* Times are whole seconds, except retry delays, which are tenths of a     *)
(* second.  Hash rates are whole EH/s after the adapter's unit conversion. *)
(* A FetchResult dict is a heap object: the cache and the callers hold its *)
(* index, so that a mutation through one reference shows through all.      *)
(***************************************************************************)
EXTENDS Integers, Sequences, FiniteSets, TLC

\* ------------------------------------------------------------------ bounds
\* Largest clock value the model explores.
MaxTime == 300
\* Number of requests (calls of cached_get) one behaviour starts.
MaxRequests == 3

\* --------------------------------------------------------------- constants
CACHE_TTL == 60
CACHE_STALE_TTL == 300
max_retries == 3
\* base_delay = 0.5 s, in tenths of a second.
base_delay == 5
\* Upper clamp of the days parameter in api_hashrate and api_history.
MaxDays == 1095

\* Server threads handling requests (Flask serves each request in a thread).
Threads == {1, 2}
\* The thread the composed system's specification follows through the whole stack.
Workers == {1}
\* The instants time.time() is sampled at: both sides of the freshness boundary
\* and both sides of the stale boundary of an entry written at 0.
Times == {x \in {0, CACHE_TTL - 1, CACHE_TTL, CACHE_STALE_TTL - 1, CACHE_STALE_TTL} : x <= MaxTime}
\* random.uniform(0, 0.5), in tenths of a second: the least draw, 0, and the greatest,
\* 0.5 - 2^-54, whose sum with base_delay * 2 is the double 1.5.
Jitters == {0, 5}
\* Values of the days query parameter the clients send: one beyond the clamp.
DaysInputs == {2000}
\* request.args.get("days", 20, type=int) when the client sends no days.
DefaultDays == {20}
\* Hash rates (EH/s) an upstream reports.
Vals == {0, 7}

None == [none |-> TRUE]

\* ------------------------------------------------------------ pure helpers
Pow2(n) == IF n = 0 THEN 1 ELSE IF n = 1 THEN 2 ELSE IF n = 2 THEN 4 ELSE 8

Min(a, b) == IF a < b THEN a ELSE b
Max(a, b) == IF a > b THEN a ELSE b

\* _mempool_period(days)
mempool_period_exclusive(days) ==
    IF days < 3 THEN "3d"
    ELSE IF days < 7 THEN "1w"
    ELSE IF days < 14 THEN "2w"
    ELSE IF days < 30 THEN "1m"
    ELSE IF days < 90 THEN "3m"
    ELSE IF days < 180 THEN "6m"
    ELSE IF days < 365 THEN "1y"
    ELSE IF days < 730 THEN "2y"
    ELSE IF days < 1095 THEN "3y"
    ELSE "all"
mempool_period(days) ==
    IF days <= 3 THEN "3d"
    ELSE IF days <= 7 THEN "1w"
    ELSE IF days <= 14 THEN "2w"
    ELSE IF days <= 30 THEN "1m"
    ELSE IF days <= 90 THEN "3m"
    ELSE IF days <= 180 THEN "6m"
    ELSE IF days <= 365 THEN "1y"
    ELSE IF days <= 730 THEN "2y"
    ELSE IF days <= 1095 THEN "3y"
    ELSE "all"

\* --------------------------------------------------------------- upstreams
SourceNames == {"luxor", "mempool.space", "blockchain.info", "blockchair"}

\* One point of an upstream series: whether its timestamp is at or after the
\* adapter's cutoff (time.time() - days * 24 * 3600), and its value.
RawPoints == [recent : BOOLEAN, val : Vals]

\* A JSON body an upstream answers with.  shape = "bad" is a body without the
\* dict structure the adapter reads (data.get raises); cur is the provider's
\* current-value field, pts its series.
Bodies ==
    [shape : {"ok"}, cur : Vals, pts : {<<>>} \cup {<<p>> : p \in RawPoints}]
        \cup {[shape |-> "bad", cur |-> 0, pts |-> <<>>]}

\* An exception: what raised it and, for a failed HTTP request, which attempt.
HttpError(attempt) == [kind |-> "http", attempt |-> attempt]
ShapeError == [kind |-> "shape", attempt |-> 0]
NoDataError == [kind |-> "nodata", attempt |-> 0]
NoError == [kind |-> "none", attempt |-> 0]

\* history.append(...) for the points with ts >= cutoff and val > 0
RECURSIVE FilterHistory(_)
FilterHistory(pts) ==
    IF pts = <<>> THEN <<>>
    ELSE LET p == Head(pts)
             rest == FilterHistory(Tail(pts))
         IN IF p.recent /\ p.val > 0 THEN <<p.val>> \o rest ELSE rest

\* history[-1]["hashrate_ehs"] if history else 0
LastOrZero(history) == IF history = <<>> THEN 0 ELSE history[Len(history)]

\* A FetchResult dict as an adapter builds it: keys source, hashrate_ehs, history.
AdapterResult(name, ehs, history) ==
    [source |-> name, hashrate_ehs |-> ehs, history |-> history,
     errors |-> <<>>, stale |-> FALSE,
     keys |-> {"source", "hashrate_ehs", "history"}]

Raise(e) == [raised |-> TRUE, err |-> e, value |-> None]
Return(v) == [raised |-> FALSE, err |-> NoError, value |-> v]

\* ---------------------------------------------------------- fetch_with_retry
CallEvent(attempt, ok) == [ev |-> "call", attempt |-> attempt, ok |-> ok, delay |-> 0]
SleepEvent(attempt, d) == [ev |-> "sleep", attempt |-> attempt, ok |-> FALSE, delay |-> d]

\* delay = base_delay * (2 ** attempt) + random.uniform(0, 0.5)
DelayNoBackoff(attempt, jitter) == base_delay + jitter
Delay(attempt, jitter) == base_delay * Pow2(attempt) + jitter

\* if attempt < max_retries - 1: time.sleep(delay)
SleepsAlways(attempt) == TRUE
SleepsAfter(attempt) == attempt < max_retries - 1

\* raise last_error
Propagated(last_error, attempts) == last_error

\* The loop of fetch_with_retry from iteration `attempt` on.  oks[i + 1] says whether
\* the HTTP request of attempt i succeeds, body is what it then returns, jit[i + 1]
\* the jitter drawn after attempt i.  log is the sequence of requests and sleeps made.
RECURSIVE RetryLoop(_, _, _, _, _, _)
RetryLoop(attempt, oks, body, jit, last_error, log) ==
    IF attempt >= max_retries
    THEN [raised |-> TRUE, err |-> Propagated(last_error, attempt), data |-> body, log |-> log]
    ELSE IF oks[attempt + 1]
    THEN [raised |-> FALSE, err |-> NoError, data |-> body,
          log |-> Append(log, CallEvent(attempt, TRUE))]
    ELSE LET failed == Append(log, CallEvent(attempt, FALSE))
         IN RetryLoop(attempt + 1, oks, body, jit, HttpError(attempt),
                      IF SleepsAfter(attempt)
                      THEN Append(failed, SleepEvent(attempt, Delay(attempt, jit[attempt + 1])))
                      ELSE failed)

fetch_with_retry(oks, body, jit) == RetryLoop(0, oks, body, jit, NoError, <<>>)

\* A single request without the retry executor (requests.post in fetch_hashrate_luxor).
SingleShot(oks, body, jit) ==
    IF oks[1]
    THEN [raised |-> FALSE, err |-> NoError, data |-> body, log |-> <<CallEvent(0, TRUE)>>]
    ELSE [raised |-> TRUE, err |-> HttpError(0), data |-> body, log |-> <<CallEvent(0, FALSE)>>]

\* ---------------------------------------------------------------- adapters
\* Each adapter: the upstream exchange r (its outcome and log), then the parse.
LuxorWithRetry(oks, body, jit) == fetch_with_retry(oks, body, jit)
LuxorExchange(oks, body, jit) == SingleShot(oks, body, jit)

fetch_hashrate_luxor(key, oks, body, jit) ==
    IF key = ""
    THEN [out |-> Raise([kind |-> "config", attempt |-> 0]), log |-> <<>>]
    ELSE LET r == LuxorExchange(oks, body, jit)
             history == FilterHistory(r.data.pts)
         IN [out |-> IF r.raised THEN Raise(r.err)
                     ELSE IF r.data.shape = "bad" THEN Raise(ShapeError)
                     ELSE IF r.data.pts = <<>> THEN Raise(NoDataError)
                     ELSE Return(AdapterResult("luxor", LastOrZero(history), history)),
             log |-> r.log]

fetch_hashrate_mempool(oks, body, jit) ==
    LET r == fetch_with_retry(oks, body, jit)
    IN [out |-> IF r.raised THEN Raise(r.err)
                ELSE IF r.data.shape = "bad" THEN Raise(ShapeError)
                ELSE Return(AdapterResult("mempool.space", r.data.cur,
                                          FilterHistory(r.data.pts))),
        log |-> r.log]

fetch_hashrate_blockchain_info(oks, body, jit) ==
    LET r == fetch_with_retry(oks, body, jit)
        history == FilterHistory(r.data.pts)
    IN [out |-> IF r.raised THEN Raise(r.err)
                ELSE IF r.data.shape = "bad" THEN Raise(ShapeError)
                ELSE Return(AdapterResult("blockchain.info", LastOrZero(history), history)),
        log |-> r.log]

fetch_hashrate_blockchair(oks, body, jit) ==
    LET r == fetch_with_retry(oks, body, jit)
    IN [out |-> IF r.raised THEN Raise(r.err)
                ELSE IF r.data.shape = "bad" THEN Raise(ShapeError)
                ELSE Return(AdapterResult("blockchair", r.data.cur, <<r.data.cur>>)),
        log |-> r.log]

\* The lambda the orchestrator holds for a source name.
Adapter(name, key, oks, body, jit) ==
    IF name = "luxor" THEN fetch_hashrate_luxor(key, oks, body, jit)
    ELSE IF name = "mempool.space" THEN fetch_hashrate_mempool(oks, body, jit)
    ELSE IF name = "blockchain.info" THEN fetch_hashrate_blockchain_info(oks, body, jit)
    ELSE fetch_hashrate_blockchair(oks, body, jit)


\* ------------------------------------------------------------------- state
VARIABLES
    LUXOR_API_KEY,  \* the credential read at import; "" when not configured
    clock,          \* time.time()
    cache,          \* _cache: key -> None or [value: heap index, ts]
    heap,           \* the FetchResult dicts that reached cached_get
    outage,         \* whether every upstream request currently fails
    goodAtOutage,   \* key -> the positive-hashrate entry cached when the outage began, or None
    lastOk,         \* key -> the `now` of the last call whose fetch succeeded, or -1
    started,        \* number of requests started
    pc,             \* per thread: where its request stands
    req,            \* per thread: the request it serves
    entry,          \* per thread: cached_get's local `entry`
    now,            \* per thread: cached_get's local `now`
    data,           \* per thread: what cached_get returned (a heap index), or 0
    via,            \* per thread: the return of cached_get taken: fresh, fetched, stale, raise
    resp,           \* per thread: the handler's response
    sources,        \* per thread: get_hashrate_data's list of source names
    idx,            \* per thread: position of the for loop in sources
    errors,         \* per thread: get_hashrate_data's local `errors`
    result,         \* per thread: what fetch_fn returned or raised
    invoked,        \* per thread: the sources invoked in this pass and how each ended
    lastCall,       \* per thread: the last adapter call: its source, requests and sleeps,
                    \* and the requests of the pass so far
    retryIn,        \* what the upstream did during a call of fetch_with_retry, or None
    retryOut,       \* what that call of fetch_with_retry returned or raised, and its log
    writes,         \* heap index -> the ts its dict was stored with
    periodDays,     \* the argument of a call of _mempool_period, or -1
    period          \* what that call returned

cacheVars == <<cache, heap, lastOk, writes>>
envVars == <<LUXOR_API_KEY, clock, outage, goodAtOutage>>
callVars == <<pc, req, entry, now, data, via, resp, started>>
passVars == <<sources, idx, errors, result, invoked, lastCall>>
retryVars == <<retryIn, retryOut>>
periodVars == <<periodDays, period>>
vars == <<cacheVars, envVars, callVars, passVars, retryVars, periodVars>>

\* days = max(0, min(days, 1095))
Clamp(days) == Max(0, Min(days, MaxDays))

\* cache_key = f"hashrate_{days}": the key is written as its day count.
CacheKey(route, days) == IF route = "states" THEN days ELSE Clamp(days)

Routes == {"hashrate", "history", "states"}
KeySpace == {CacheKey(r, d) : r \in Routes, d \in DaysInputs \cup DefaultDays}

NoRequest == [route |-> "none", days |-> 0, key |-> 0, during |-> FALSE]
NoResult == [raised |-> FALSE, err |-> NoError, value |-> None]
NoResponse == [status |-> 0]
NoCall == [name |-> "none", requests |-> 0, sleeps |-> 0, total |-> 0]

Init ==
    /\ LUXOR_API_KEY \in {"", "key"}
    /\ clock = 0
    /\ cache = [k \in KeySpace |-> None]
    /\ heap = <<>>
    /\ outage = FALSE
    /\ goodAtOutage = [k \in KeySpace |-> None]
    /\ lastOk = [k \in KeySpace |-> -1]
    /\ started = 0
    /\ pc = [t \in Threads |-> "idle"]
    /\ req = [t \in Threads |-> NoRequest]
    /\ entry = [t \in Threads |-> None]
    /\ now = [t \in Threads |-> 0]
    /\ data = [t \in Threads |-> 0]
    /\ via = [t \in Threads |-> "none"]
    /\ resp = [t \in Threads |-> NoResponse]
    /\ sources = [t \in Threads |-> <<>>]
    /\ idx = [t \in Threads |-> 0]
    /\ errors = [t \in Threads |-> <<>>]
    /\ result = [t \in Threads |-> NoResult]
    /\ invoked = [t \in Threads |-> <<>>]
    /\ lastCall = [t \in Threads |-> NoCall]
    /\ retryIn = None
    /\ retryOut = None
    /\ writes = <<>>
    /\ periodDays = -1
    /\ period = ""

\* ------------------------------------------------------------- environment
Tick ==
    /\ \E x \in Times : x > clock /\ clock' = x
    /\ UNCHANGED <<LUXOR_API_KEY, outage, goodAtOutage>>
    /\ UNCHANGED <<cacheVars, callVars, passVars, retryVars, periodVars>>

\* The hash rate of the value cached under k, 0 when there is none.
CachedRate(k) == IF cache[k] = None THEN 0 ELSE heap[cache[k].value].hashrate_ehs

OutageBegin ==
    /\ ~outage
    /\ outage' = TRUE
    /\ goodAtOutage' = [k \in KeySpace |-> IF CachedRate(k) > 0 THEN cache[k] ELSE None]
    /\ UNCHANGED <<LUXOR_API_KEY, clock>>
    /\ UNCHANGED <<cacheVars, callVars, passVars, retryVars, periodVars>>

OutageEnd ==
    /\ outage
    /\ outage' = FALSE
    /\ goodAtOutage' = [k \in KeySpace |-> None]
    /\ req' = [t \in Threads |-> [req[t] EXCEPT !.during = FALSE]]
    /\ UNCHANGED <<LUXOR_API_KEY, clock>>
    /\ UNCHANGED <<pc, entry, now, data, via, resp, started>>
    /\ UNCHANGED <<cacheVars, passVars, retryVars, periodVars>>

\* ---------------------------------------------------------- route handlers
\* api_hashrate, api_history, api_states up to their call of cached_get.
Request(t, routes, days) ==
    /\ pc[t] \in {"idle", "done"}
    /\ started < MaxRequests
    /\ \E r \in routes, d \in days :
          req' = [req EXCEPT ![t] = [route |-> r, days |-> d,
                                     key |-> CacheKey(r, d), during |-> outage]]
    /\ started' = started + 1
    /\ pc' = [pc EXCEPT ![t] = "cg_read"]
    /\ resp' = [resp EXCEPT ![t] = NoResponse]
    /\ UNCHANGED <<entry, now, data, via>>
    /\ UNCHANGED <<cacheVars, envVars, passVars, retryVars, periodVars>>

\* What the handler reads of the dict cached_get returned.  Only api_hashrate
\* reads "stale" and "errors".
Response(route, d) ==
    [status |-> 200, source |-> d.source, hashrate_ehs |-> d.hashrate_ehs,
     stale |-> route = "hashrate" /\ d.stale,
     errors |-> IF route = "hashrate" THEN d.errors ELSE <<>>]

\* cached_get raised: Flask answers 500.
ErrorResponse == [status |-> 500]

\* cached_get's locals, dead once the handler has its data.
ClearCall(t) ==
    /\ entry' = [entry EXCEPT ![t] = None]
    /\ now' = [now EXCEPT ![t] = 0]
    /\ data' = [data EXCEPT ![t] = 0]
    /\ via' = [via EXCEPT ![t] = "none"]

\* The handler after cached_get returned: the response is built and answered.
Respond(t) ==
    /\ pc[t] = "respond"
    /\ req[t].route \in Routes
    /\ resp' = [resp EXCEPT ![t] = Response(req[t].route, heap[data[t]])]
    /\ pc' = [pc EXCEPT ![t] = "done"]
    /\ ClearCall(t)
    /\ UNCHANGED <<req, started>>
    /\ UNCHANGED <<cacheVars, envVars, passVars, retryVars, periodVars>>

\* The handler when cached_get raised.
RespondError(t) ==
    /\ pc[t] = "raised"
    /\ resp' = [resp EXCEPT ![t] = ErrorResponse]
    /\ pc' = [pc EXCEPT ![t] = "done"]
    /\ ClearCall(t)
    /\ UNCHANGED <<req, started>>
    /\ UNCHANGED <<cacheVars, envVars, passVars, retryVars, periodVars>>

\* api_health: get_hashrate_data(1) called directly, without the cache.
HealthRequest(t) ==
    /\ pc[t] \in {"idle", "done"}
    /\ started < MaxRequests
    /\ req' = [req EXCEPT ![t] = [route |-> "health", days |-> 1, key |-> 1,
                                  during |-> outage]]
    /\ started' = started + 1
    /\ pc' = [pc EXCEPT ![t] = "fetch"]
    /\ resp' = [resp EXCEPT ![t] = NoResponse]
    /\ UNCHANGED <<entry, now, data, via>>
    /\ UNCHANGED <<cacheVars, envVars, passVars, retryVars, periodVars>>

\* The status api_health builds: from the data, or from the exception it caught.
HealthStatus(r) ==
    IF r.raised
    THEN [status |-> 200, healthy |-> FALSE, active_source |-> "none",
          current_hashrate_ehs |-> 0]
    ELSE [status |-> 200, healthy |-> TRUE, active_source |-> r.value.source,
          current_hashrate_ehs |-> r.value.hashrate_ehs]


\* -------------------------------------------------------------- cached_get
\* entry and now - entry["ts"] < CACHE_TTL
IsFreshInclusive(e, n) == e # None /\ n - e.ts <= CACHE_TTL
IsFresh(e, n) == e # None /\ n - e.ts < CACHE_TTL

\* entry and now - entry["ts"] < CACHE_STALE_TTL
IsServableInclusive(e, n) == e # None /\ n - e.ts <= CACHE_STALE_TTL
IsServable(e, n) == e # None /\ n - e.ts < CACHE_STALE_TTL

\* The pass's locals, dead once fetch_fn has returned.
ClearPass(t) ==
    /\ sources' = [sources EXCEPT ![t] = <<>>]
    /\ idx' = [idx EXCEPT ![t] = 0]
    /\ errors' = [errors EXCEPT ![t] = <<>>]
    /\ result' = [result EXCEPT ![t] = NoResult]
    /\ invoked' = [invoked EXCEPT ![t] = <<>>]
    /\ lastCall' = [lastCall EXCEPT ![t] = NoCall]

\* entry = _cache.get(key)
CachedGetRead(t) ==
    /\ pc[t] = "cg_read"
    /\ entry' = [entry EXCEPT ![t] = cache[req[t].key]]
    /\ pc' = [pc EXCEPT ![t] = "cg_now"]
    /\ UNCHANGED <<req, now, data, via, resp, started>>
    /\ UNCHANGED <<cacheVars, envVars, passVars, retryVars, periodVars>>

\* now = time.time(), then the fresh return or the call of fetch_fn.
CachedGetNow(t) ==
    /\ pc[t] = "cg_now"
    /\ now' = [now EXCEPT ![t] = clock]
    /\ IF IsFresh(entry[t], clock)
       THEN /\ data' = [data EXCEPT ![t] = entry[t].value]
            /\ via' = [via EXCEPT ![t] = "fresh"]
            /\ pc' = [pc EXCEPT ![t] = "respond"]
       ELSE /\ pc' = [pc EXCEPT ![t] = "fetch"]
            /\ UNCHANGED <<data, via>>
    /\ UNCHANGED <<req, entry, resp, started>>
    /\ UNCHANGED <<cacheVars, envVars, passVars, retryVars, periodVars>>

\* The entry a successful fetch writes.
Stored(value, n) == [value |-> value, ts |-> n]

\* _cache[key] = ...: one assignment of the finished entry to the key's slot.
WriteTorn(c, k, e) ==
    [c EXCEPT ![k] = IF c[k] = None THEN e ELSE [value |-> e.value, ts |-> c[k].ts]]
WriteAll(c, k, e) == [x \in DOMAIN c |-> e]
WritePositiveOnly(c, k, e) ==
    IF heap'[e.value].hashrate_ehs > 0 THEN [c EXCEPT ![k] = e] ELSE c
WriteEntry(c, k, e) == [c EXCEPT ![k] = e]

\* _cache[key] = {"value": value, "ts": now}; return value
CachedGetStore(t) ==
    /\ pc[t] = "returned"
    /\ req[t].route \in Routes
    /\ ~result[t].raised
    /\ heap' = Append(heap, result[t].value)
    /\ cache' = WriteEntry(cache, req[t].key, Stored(Len(heap) + 1, now[t]))
    /\ lastOk' = [lastOk EXCEPT ![req[t].key] = now[t]]
    /\ writes' = Append(writes, now[t])
    /\ data' = [data EXCEPT ![t] = Len(heap) + 1]
    /\ via' = [via EXCEPT ![t] = "fetched"]
    /\ pc' = [pc EXCEPT ![t] = "respond"]
    /\ ClearPass(t)
    /\ UNCHANGED <<req, entry, now, resp, started>>
    /\ UNCHANGED <<envVars, retryVars, periodVars>>

\* What the except branch does to the cache map when it serves the stale entry.
TouchOnStale(c, k, e, n) == [c EXCEPT ![k] = [value |-> e.value, ts |-> n]]
KeepOnStale(c, k, e, n) == c

\* except Exception: the stale entry marked and returned, or the exception raised again.
CachedGetExcept(t) ==
    /\ pc[t] = "returned"
    /\ req[t].route \in Routes
    /\ result[t].raised
    /\ IF IsServable(entry[t], now[t])
       THEN /\ heap' = [heap EXCEPT ![entry[t].value].stale = TRUE]
            /\ cache' = KeepOnStale(cache, req[t].key, entry[t], now[t])
            /\ data' = [data EXCEPT ![t] = entry[t].value]
            /\ via' = [via EXCEPT ![t] = "stale"]
            /\ pc' = [pc EXCEPT ![t] = "respond"]
       ELSE /\ via' = [via EXCEPT ![t] = "raise"]
            /\ pc' = [pc EXCEPT ![t] = "raised"]
            /\ UNCHANGED <<heap, cache, data>>
    /\ ClearPass(t)
    /\ UNCHANGED <<lastOk, writes, req, entry, now, resp, started>>
    /\ UNCHANGED <<envVars, retryVars, periodVars>>

\* ------------------------------------------------------- get_hashrate_data
FreeSources == <<"mempool.space", "blockchain.info", "blockchair">>

\* sources = []; luxor appended if LUXOR_API_KEY; then the free sources.
SourceListLuxorLast(key) == FreeSources \o (IF key # "" THEN <<"luxor">> ELSE <<>>)
SourceList(key) == (IF key # "" THEN <<"luxor">> ELSE <<>>) \o FreeSources

\* errors.append(f"{name}: {str(e)}"): the source's name, then the exception's text.
Diagnostic(name, e) == <<name, e.kind>>

\* The dict returned when the loop ends without a winner.
Sentinel(errs) ==
    [source |-> "unavailable", hashrate_ehs |-> 0, history |-> <<>>,
     errors |-> errs, stale |-> FALSE,
     keys |-> {"source", "hashrate_ehs", "history", "errors"}]

\* One iteration of the for loop, given the adapter's outcome `out`: whether
\* get_hashrate_data is over, what it then returns or raises, and `errors`.
IterationNoCatch(name, out, errs) ==
    IF out.raised THEN [over |-> TRUE, result |-> Raise(out.err), errors |-> errs]
    ELSE IF out.value.hashrate_ehs > 0
    THEN [over |-> TRUE, result |-> Return(out.value), errors |-> errs]
    ELSE [over |-> FALSE, result |-> NoResult, errors |-> errs]
IterationWithErrors(name, out, errs) ==
    IF out.raised
    THEN [over |-> FALSE, result |-> NoResult, errors |-> Append(errs, Diagnostic(name, out.err))]
    ELSE IF out.value.hashrate_ehs > 0
    THEN [over |-> TRUE, errors |-> errs,
          result |-> Return([out.value EXCEPT !.errors = errs,
                                              !.keys = @ \cup {"errors"}])]
    ELSE [over |-> FALSE, result |-> NoResult, errors |-> errs]
IterationZeroIsError(name, out, errs) ==
    IF out.raised \/ out.value.hashrate_ehs <= 0
    THEN [over |-> FALSE, result |-> NoResult, errors |-> Append(errs, Diagnostic(name, out.err))]
    ELSE [over |-> TRUE, result |-> Return(out.value), errors |-> errs]
Iteration(name, out, errs) ==
    IF out.raised
    THEN [over |-> FALSE, result |-> NoResult, errors |-> Append(errs, Diagnostic(name, out.err))]
    ELSE IF out.value.hashrate_ehs > 0
    THEN [over |-> TRUE, result |-> Return(out.value), errors |-> errs]
    ELSE [over |-> FALSE, result |-> NoResult, errors |-> errs]

\* How an adapter call ended.
Outcome(out) ==
    IF out.raised THEN "raised"
    ELSE IF out.value.hashrate_ehs > 0 THEN "positive" ELSE "nonpositive"

\* Number of upstream requests in an adapter call's log.
Requests(log) == Cardinality({i \in DOMAIN log : log[i].ev = "call"})
Sleeps(log) == Cardinality({i \in DOMAIN log : log[i].ev = "sleep"})

\* What the upstream does during one adapter call: oks[i + 1] whether the request
\* of attempt i succeeds, body the JSON of the successful one, jit[i + 1] the jitter
\* drawn for the sleep after attempt i.  The adapter stops at the first success, so
\* the outcomes after it are never drawn (k counts the failures before it), and a
\* jitter is drawn only for a sleep that can take place.
BadBody == [shape |-> "bad", cur |-> 0, pts |-> <<>>]
Exchanges ==
    UNION {[oks : {[i \in 1..max_retries |-> i > k]},
            body : IF k = max_retries THEN {BadBody} ELSE Bodies,
            jit : {j \in [1..max_retries -> Jitters] :
                     \A i \in 1..max_retries : (i > k \/ i = max_retries) => j[i] = 0}]
           : k \in 0..max_retries}

\* The upstreams of the composed system's specification: a request fails (at once
\* or through all the retries), or it answers a well-formed body with a positive
\* hash rate, or a body of the wrong shape.
GoodBody == [shape |-> "ok", cur |-> 7, pts |-> <<[recent |-> TRUE, val |-> 7]>>]
PlainExchanges ==
    {u \in Exchanges : /\ u.body \in {GoodBody, BadBody}
                       /\ u.oks[1] = u.oks[2]}

\* sources built, errors = []
GetHashrateBegin(t) ==
    /\ pc[t] = "fetch"
    /\ sources' = [sources EXCEPT ![t] = SourceList(LUXOR_API_KEY)]
    /\ idx' = [idx EXCEPT ![t] = 1]
    /\ errors' = [errors EXCEPT ![t] = <<>>]
    /\ pc' = [pc EXCEPT ![t] = "g_loop"]
    /\ UNCHANGED <<result, invoked, lastCall>>
    /\ UNCHANGED <<req, entry, now, data, via, resp, started>>
    /\ UNCHANGED <<cacheVars, envVars, retryVars, periodVars>>

\* One iteration of `for name, fetch_fn in sources`: the adapter runs to its end
\* (every request and sleep of it), then the loop body decides.
TrySource(t, exchanges) ==
    /\ pc[t] = "g_loop"
    /\ idx[t] <= Len(sources[t])
    /\ \E u \in exchanges :
          /\ outage => \A i \in 1..max_retries : ~u.oks[i]
          /\ \E a \in {Adapter(sources[t][idx[t]], LUXOR_API_KEY, u.oks, u.body, u.jit)} :
             \E it \in {Iteration(sources[t][idx[t]], a.out, errors[t])} :
             LET name == sources[t][idx[t]]
             IN /\ errors' = [errors EXCEPT ![t] = it.errors]
                /\ invoked' = [invoked EXCEPT ![t] =
                       Append(@, [name |-> name, outcome |-> Outcome(a.out)])]
                /\ lastCall' = [lastCall EXCEPT ![t] =
                       [name |-> name, requests |-> Requests(a.log), sleeps |-> Sleeps(a.log),
                        total |-> @.total + Requests(a.log)]]
                /\ result' = [result EXCEPT ![t] = it.result]
                /\ IF it.over
                   THEN pc' = [pc EXCEPT ![t] = "returned"] /\ UNCHANGED idx
                   ELSE idx' = [idx EXCEPT ![t] = @ + 1] /\ UNCHANGED pc
    /\ UNCHANGED sources
    /\ UNCHANGED <<req, entry, now, data, via, resp, started>>
    /\ UNCHANGED <<cacheVars, envVars, retryVars, periodVars>>

\* The loop ended without a winner: the "unavailable" dict is returned.
GetHashrateUnavailable(t) ==
    /\ pc[t] = "g_loop"
    /\ idx[t] > Len(sources[t])
    /\ result' = [result EXCEPT ![t] = Return(Sentinel(errors[t]))]
    /\ pc' = [pc EXCEPT ![t] = "returned"]
    /\ UNCHANGED <<sources, idx, errors, invoked, lastCall>>
    /\ UNCHANGED <<req, entry, now, data, via, resp, started>>
    /\ UNCHANGED <<cacheVars, envVars, retryVars, periodVars>>

\* api_health after get_hashrate_data: the status is answered.
HealthRespond(t) ==
    /\ pc[t] = "returned"
    /\ req[t].route = "health"
    /\ resp' = [resp EXCEPT ![t] = HealthStatus(result[t])]
    /\ pc' = [pc EXCEPT ![t] = "done"]
    /\ ClearPass(t)
    /\ UNCHANGED <<req, entry, now, data, via, started>>
    /\ UNCHANGED <<cacheVars, envVars, retryVars, periodVars>>

\* ------------------------------------------------- an arbitrary fetch_fn
\* What a fetch_fn other than get_hashrate_data may do: return a dict or raise.
FetchOutcomes ==
    {Return(AdapterResult("f", v, <<>>)) : v \in Vals \ {0}} \cup {Raise(HttpError(0))}

FetchFn(t) ==
    /\ pc[t] = "fetch"
    /\ \E o \in FetchOutcomes : result' = [result EXCEPT ![t] = o]
    /\ pc' = [pc EXCEPT ![t] = "returned"]
    /\ UNCHANGED <<sources, idx, errors, invoked, lastCall>>
    /\ UNCHANGED <<req, entry, now, data, via, resp, started>>
    /\ UNCHANGED <<cacheVars, envVars, retryVars, periodVars>>

\* ------------------------------------------------------------ specifications
\* The composed system: one worker thread followed through the whole stack, the
\* dashboard's request (api_hashrate with the default days), fetch_fn being
\* get_hashrate_data.  get_hashrate_data returns on every path, so the except
\* branch of cached_get is not among the steps.
Next ==
    \/ Tick
    \/ OutageBegin
    \/ OutageEnd
    \/ \E t \in Workers : Request(t, {"hashrate"}, DefaultDays)
    \/ \E t \in Workers : CachedGetRead(t)
    \/ \E t \in Workers : CachedGetNow(t)
    \/ \E t \in Workers : GetHashrateBegin(t)
    \/ \E t \in Workers : TrySource(t, PlainExchanges)
    \/ \E t \in Workers : GetHashrateUnavailable(t)
    \/ \E t \in Workers : CachedGetStore(t)
    \/ \E t \in Workers : Respond(t)

Spec == Init /\ [][Next]_vars

\* get_hashrate_data on its own, called by api_health.
NextPass ==
    \/ Tick
    \/ \E t \in Workers : HealthRequest(t)
    \/ \E t \in Workers : GetHashrateBegin(t)
    \/ \E t \in Workers : TrySource(t, Exchanges)
    \/ \E t \in Workers : GetHashrateUnavailable(t)
    \/ \E t \in Workers : HealthRespond(t)

SpecPass == Init /\ [][NextPass]_vars

\* The same, the running pass never left waiting: every request returns or fails
\* (requests.get(..., timeout=15)), so the loop's next step is always taken.
PassStep ==
    \E t \in Workers :
        GetHashrateBegin(t) \/ TrySource(t, Exchanges) \/ GetHashrateUnavailable(t)
SpecPassFair == SpecPass /\ WF_vars(PassStep)

\* cached_get under overlapping requests of every route, with an arbitrary fetch_fn.
NextCache ==
    \/ Tick
    \/ \E t \in Threads : Request(t, Routes, DaysInputs)
    \/ \E t \in Threads : CachedGetRead(t)
    \/ \E t \in Threads : CachedGetNow(t)
    \/ \E t \in Threads : FetchFn(t)
    \/ \E t \in Threads : CachedGetStore(t)
    \/ \E t \in Threads : CachedGetExcept(t)
    \/ \E t \in Threads : Respond(t)
    \/ \E t \in Threads : RespondError(t)

SpecCache == Init /\ [][NextCache]_vars

\* fetch_with_retry on its own: one call for each thing the upstream may do.
RetryInputs == [oks : [1..max_retries -> BOOLEAN], body : Bodies,
                jit : [1..max_retries -> Jitters]]

RetryCall ==
    /\ retryIn = None
    /\ \E u \in RetryInputs :
          /\ retryIn' = u
          /\ retryOut' = fetch_with_retry(u.oks, u.body, u.jit)
    /\ UNCHANGED <<cacheVars, envVars, callVars, passVars, periodVars>>

NextRetry == RetryCall

SpecRetry == Init /\ [][NextRetry]_vars

\* _mempool_period as a call: any day count a clamped or unclamped request can carry.
MaxPeriodDays == 1200
PeriodInputs == 0..MaxPeriodDays
MempoolPeriodCall ==
    /\ periodDays = -1
    /\ \E d \in PeriodInputs :
          /\ periodDays' = d
          /\ period' = mempool_period(d)
    /\ UNCHANGED <<cacheVars, envVars, callVars, passVars, retryVars>>
NextPeriod == MempoolPeriodCall
SpecPeriod == Init /\ [][NextPeriod]_vars

\* ================================================================== claims
\* The candidate list get_hashrate_data is to build for a credential.
AllFour == <<"luxor", "mempool.space", "blockchain.info", "blockchair">>
ExpectedSources(key) == IF key = "" THEN SubSeq(AllFour, 2, 4) ELSE AllFour

\* The threads whose orchestration pass is under way or just over.
PassOver(t) == pc[t] = "returned" /\ sources[t] # <<>>

\* The sources a list of diagnostics names, in order.
SourcesNamed(errs) == [i \in DOMAIN errs |-> errs[i][1]]
NamesOf(inv) == [i \in DOMAIN inv |-> inv[i].name]
\* The place of a source in the priority order.
Rank4(n) == CHOOSE i \in 1..4 : AllFour[i] = n
NonePositive(inv) == \A i \in DOMAIN inv : inv[i].outcome # "positive"
RECURSIVE RaisedNames(_)
RaisedNames(inv) ==
    IF inv = <<>> THEN <<>>
    ELSE (IF Head(inv).outcome = "raised" THEN <<Head(inv).name>> ELSE <<>>)
             \o RaisedNames(Tail(inv))

\* C5: the candidates are luxor first iff the credential is configured, then
\* mempool.space, blockchain.info, blockchair; they are invoked in that order, the
\* first one that returns hashrate_ehs > 0 is the result, and none is invoked after it.
C5_PriorityAndEarlyReturn ==
    \A t \in Threads : (pc[t] \in {"g_loop", "returned"} /\ sources[t] # <<>>) =>
        /\ sources[t] = ExpectedSources(LUXOR_API_KEY)
        /\ Len(invoked[t]) <= Len(sources[t])
        /\ NamesOf(invoked[t]) = SubSeq(sources[t], 1, Len(invoked[t]))
        /\ \A i \in 1..(Len(invoked[t]) - 1) : invoked[t][i].outcome # "positive"
        /\ pc[t] = "g_loop" => NonePositive(invoked[t])
        /\ (pc[t] = "returned" /\ ~NonePositive(invoked[t])) =>
              /\ ~result[t].raised
              /\ result[t].value.source = invoked[t][Len(invoked[t])].name
              /\ result[t].value.hashrate_ehs > 0
        /\ (pc[t] = "returned" /\ NonePositive(invoked[t])) =>
              Len(invoked[t]) = Len(sources[t])
        /\ (pc[t] = "returned" /\ invoked[t][1].outcome = "positive") =>
              result[t].value.source =
                  (IF LUXOR_API_KEY # "" THEN "luxor" ELSE "mempool.space")

\* C5 witness: with the credential configured, luxor failed and mempool.space won.
C5_Witness ==
    \E t \in Threads :
        /\ PassOver(t) /\ LUXOR_API_KEY # ""
        /\ Len(invoked[t]) = 2
        /\ invoked[t][1] = [name |-> "luxor", outcome |-> "raised"]
        /\ result[t].value.source = "mempool.space"

\* Source i failed, source i + 1 succeeded, and the pass is over.
FailedThenWon(t, i) ==
    /\ PassOver(t)
    /\ i + 1 = Len(invoked[t])
    /\ invoked[t][i].outcome = "raised"
    /\ invoked[t][i + 1].outcome = "positive"

Occurrences(seq, x) == Cardinality({j \in DOMAIN seq : seq[j] = x})

\* C6 as stated: when source i fails and source i + 1 succeeds, the result names
\* source i + 1 and its errors field holds exactly one entry, the one of source i.
C6_FallbackAsStated ==
    \A t \in Threads : \A i \in 1..3 : FailedThenWon(t, i) =>
        /\ result[t].value.source = invoked[t][i + 1].name
        /\ "errors" \in result[t].value.keys
        /\ SourcesNamed(result[t].value.errors) = <<invoked[t][i].name>>

\* C6 amended: when source i fails and source i + 1 succeeds, the result names
\* source i + 1 and carries no errors field; the diagnostic of source i is the last
\* of the pass's local errors list, once, and the only one when i is the first candidate.
C6_Fallback ==
    \A t \in Threads : \A i \in 1..3 : FailedThenWon(t, i) =>
        /\ ~result[t].raised
        /\ result[t].value.source = invoked[t][i + 1].name
        /\ "errors" \notin result[t].value.keys
        /\ result[t].value.errors = <<>>
        /\ errors[t] # <<>>
        /\ errors[t][Len(errors[t])][1] = invoked[t][i].name
        /\ Occurrences(SourcesNamed(errors[t]), invoked[t][i].name) = 1
        /\ i = 1 => Len(errors[t]) = 1

\* C6 witness: blockchain.info failed and blockchair won.
C6_Witness ==
    \E t \in Threads :
        /\ Len(invoked[t]) >= 2
        /\ FailedThenWon(t, Len(invoked[t]) - 1)
        /\ invoked[t][Len(invoked[t]) - 1].name = "blockchain.info"
        /\ result[t].value.source = "blockchair"

\* Every candidate was invoked and none returned a positive hash rate.
TotalFailure(t) ==
    /\ PassOver(t)
    /\ Len(invoked[t]) = Len(sources[t])
    /\ NonePositive(invoked[t])

\* C7 as stated: when every source fails or returns hashrate_ehs == 0 the result is
\* {source: "unavailable", hashrate_ehs: 0, history: [], errors: a list of length 4}.
C7_TotalFailureAsStated ==
    \A t \in Threads : TotalFailure(t) =>
        /\ result[t].value.source = "unavailable"
        /\ result[t].value.hashrate_ehs = 0
        /\ result[t].value.history = <<>>
        /\ Len(result[t].value.errors) = 4

\* C7 amended: when every candidate fails or returns hashrate_ehs == 0 the result is
\* {source: "unavailable", hashrate_ehs: 0, history: [], errors}, errors holding one
\* diagnostic for each candidate that raised, in priority order: of length 4 exactly
\* when the credential is configured and all four raised.
C7_TotalFailure ==
    \A t \in Threads : TotalFailure(t) =>
        /\ ~result[t].raised
        /\ result[t].value.source = "unavailable"
        /\ result[t].value.hashrate_ehs = 0
        /\ result[t].value.history = <<>>
        /\ ~result[t].value.stale
        /\ result[t].value.keys = {"source", "hashrate_ehs", "history", "errors"}
        /\ SourcesNamed(result[t].value.errors) = RaisedNames(invoked[t])
        /\ Len(result[t].value.errors) = 4 <=>
              (LUXOR_API_KEY # "" /\ \A i \in 1..4 : invoked[t][i].outcome = "raised")

\* C7 witness: the credential configured, two sources raised and two returned 0.
C7_Witness ==
    \E t \in Threads :
        /\ TotalFailure(t) /\ LUXOR_API_KEY # ""
        /\ Len(result[t].value.errors) = 2

\* C8: get_hashrate_data never raises: whatever each source does and whatever the
\* credential, the pass ends with a FetchResult, the "unavailable" one when no
\* source returned a positive hash rate; api_health never sees an exception.
C8_NeverRaises ==
    \A t \in Threads :
        /\ PassOver(t) =>
              /\ ~result[t].raised
              /\ result[t].value # None
              /\ {"source", "hashrate_ehs", "history"} \subseteq result[t].value.keys
              /\ result[t].value.source \in SourceNames \cup {"unavailable"}
              /\ NonePositive(invoked[t]) <=> result[t].value.source = "unavailable"
        /\ (pc[t] = "done" /\ req[t].route = "health") => resp[t].healthy

\* C8 witness: without the credential, one source failed through its retries, one
\* answered a malformed body, one returned 0, and the pass is over.
C8_Witness ==
    \E t \in Threads :
        /\ TotalFailure(t) /\ LUXOR_API_KEY = ""
        /\ Len(errors[t]) = 2
        /\ invoked[t][3].outcome = "nonpositive"
        /\ lastCall[t].requests = 1

\* C10: in one pass luxor is invoked at most once, with a single upstream request
\* and no sleep, and not at all without the credential; a free adapter issues at
\* most max_retries requests.
C10_SingleShotAndRetryable ==
    \A t \in Threads :
        /\ lastCall[t].name = "luxor" => (lastCall[t].requests = 1 /\ lastCall[t].sleeps = 0)
        /\ lastCall[t].name \in SourceNames \ {"luxor"} =>
              (lastCall[t].requests \in 1..max_retries /\ lastCall[t].sleeps < max_retries)
        /\ Occurrences(NamesOf(invoked[t]), "luxor") <= 1
        /\ LUXOR_API_KEY = "" => Occurrences(NamesOf(invoked[t]), "luxor") = 0
        /\ \A n \in SourceNames : Occurrences(NamesOf(invoked[t]), n) <= 1

\* C10 witness: luxor's one request failed and the pass went on to mempool.space,
\* which used all its attempts.
C10_Witness ==
    \E t \in Threads :
        /\ Len(invoked[t]) = 2
        /\ invoked[t][1] = [name |-> "luxor", outcome |-> "raised"]
        /\ lastCall[t] = [name |-> "mempool.space", requests |-> max_retries,
                          sleeps |-> max_retries - 1, total |-> 1 + max_retries]

\* The log of a finished call of fetch_with_retry.
RetryDone == retryIn # None

\* C9: fetch_with_retry invokes the call sequentially, stops at and returns the first
\* success, makes at most max_retries invocations, sleeps once between a failed attempt
\* and the next and never after the last, and when all fail raises the last failure.
C9_RetryProtocol ==
    RetryDone =>
        LET log == retryOut.log
            n == Len(log)
        IN /\ n >= 1
           /\ Requests(log) <= max_retries
           /\ \A i \in 1..n :
                 IF i % 2 = 1
                 THEN log[i].ev = "call" /\ log[i].attempt = (i - 1) \div 2
                 ELSE log[i].ev = "sleep" /\ log[i].attempt = (i - 2) \div 2
           /\ log[n].ev = "call"
           /\ \A i \in 1..(n - 1) : log[i].ev = "call" => ~log[i].ok
           /\ \A i \in 1..n : log[i].ev = "call" => log[i].ok = retryIn.oks[log[i].attempt + 1]
           /\ log[n].ok => (~retryOut.raised /\ retryOut.data = retryIn.body)
           /\ ~log[n].ok =>
                 /\ retryOut.raised
                 /\ Requests(log) = max_retries
                 /\ retryOut.err = HttpError(max_retries - 1)

\* C9 witness: two failures, then the third attempt succeeds.
C9_Witness ==
    /\ RetryDone
    /\ ~retryOut.raised
    /\ Requests(retryOut.log) = 3
    /\ Sleeps(retryOut.log) = 2


\* ------------------------------------------------------------- cached_get
\* The age cached_get computes for the entry it read.
Age(t) == now[t] - entry[t].ts

\* fetch_fn has failed in thread t's call and the except branch is about to run.
FetchFailed(t) == pc[t] = "returned" /\ req[t].route \in Routes /\ result[t].raised

\* C2: when fetch_fn fails and the entry read has CACHE_TTL <= age < CACHE_STALE_TTL,
\* the call returns the stored value object, marked stale, and leaves the cache map
\* as it is; an entry's ts is always the time of the last successful fetch of its key.
C2_StaleStep ==
    \A t \in Threads :
        (FetchFailed(t) /\ entry[t] # None
            /\ CACHE_TTL <= Age(t) /\ Age(t) < CACHE_STALE_TTL /\ pc'[t] # pc[t]) =>
                /\ pc'[t] = "respond"
                /\ via'[t] = "stale"
                /\ data'[t] = entry[t].value
                /\ heap'[data'[t]].stale
                /\ heap'[data'[t]].hashrate_ehs = heap[entry[t].value].hashrate_ehs
                /\ cache' = cache
C2_TsIsLastSuccess ==
    \A k \in KeySpace : cache[k] # None => cache[k].ts = lastOk[k]
C2_StaleWhileRevalidate == [][C2_StaleStep]_vars /\ []C2_TsIsLastSuccess

\* C2 witness: a second consecutive failed revalidation has served the entry of the
\* one successful fetch, whose ts has not moved.
C2_Witness ==
    \E t \in Threads :
        /\ pc[t] = "respond" /\ via[t] = "stale"
        /\ clock = CACHE_STALE_TTL - 1
        /\ now[t] = CACHE_STALE_TTL - 1
        /\ Len(heap) = 1
        /\ cache[req[t].key] = [value |-> 1, ts |-> 0]
        /\ \E u \in Threads \ {t} :
              /\ pc[u] = "done" /\ req[u].key = req[t].key
              /\ resp[u].status = 200 /\ resp[u].stale

\* C3: when fetch_fn fails and the call read no entry, or one of age >= CACHE_STALE_TTL,
\* the call raises, returns no data and leaves the cache as it is; no value of age
\* >= CACHE_STALE_TTL at the call's now is ever returned from the cache.
C3_RaiseStep ==
    \A t \in Threads :
        (FetchFailed(t) /\ (entry[t] = None \/ Age(t) >= CACHE_STALE_TTL)
            /\ pc'[t] # pc[t]) =>
                /\ pc'[t] = "raised"
                /\ via'[t] = "raise"
                /\ data'[t] = 0
                /\ cache' = cache
                /\ heap' = heap
C3_NothingExpiredReturned ==
    \A t \in Threads :
        /\ (pc[t] = "respond" /\ via[t] \in {"fresh", "stale"}) =>
              (entry[t] # None /\ Age(t) < CACHE_STALE_TTL /\ data[t] = entry[t].value)
        /\ pc[t] = "raised" =>
              (via[t] = "raise" /\ (entry[t] = None \/ Age(t) >= CACHE_STALE_TTL))
        /\ (pc[t] = "done" /\ resp[t] # NoResponse /\ resp[t].status = 500) =>
              req[t].route \in Routes
C3_ExpiryHardFail == [][C3_RaiseStep]_vars /\ []C3_NothingExpiredReturned

\* C3 witness: the entry is exactly CACHE_STALE_TTL old, fetch_fn failed and the
\* call raised.
C3_Witness ==
    \E t \in Threads :
        /\ pc[t] = "raised"
        /\ entry[t] # None
        /\ Age(t) = CACHE_STALE_TTL

\* C4: fetch_fn is invoked only by a call that read no entry or one of age >=
\* CACHE_TTL; a successful fetch returns the object it stores, stamped with the
\* call's now; a call that reads an entry younger than CACHE_TTL returns that very
\* object without fetching or writing, and the object carries no stale marker.
C4_FreshStep ==
    \A t \in Threads :
        /\ (pc[t] = "cg_now" /\ entry[t] # None /\ clock - entry[t].ts < CACHE_TTL
               /\ pc'[t] # pc[t]) =>
                  /\ pc'[t] = "respond"
                  /\ via'[t] = "fresh"
                  /\ data'[t] = entry[t].value
                  /\ ~heap'[data'[t]].stale
                  /\ cache' = cache /\ heap' = heap
        /\ (pc[t] = "returned" /\ req[t].route \in Routes /\ ~result[t].raised
               /\ pc'[t] # pc[t]) =>
                  /\ cache'[req[t].key] = [value |-> data'[t], ts |-> now[t]]
                  /\ heap'[data'[t]] = result[t].value
                  /\ ~heap'[data'[t]].stale
                  /\ data'[t] \notin DOMAIN heap
C4_FetchOnlyWhenNotFresh ==
    \A t \in Threads :
        /\ (pc[t] \in {"fetch", "returned"} /\ req[t].route \in Routes) =>
              (entry[t] = None \/ Age(t) >= CACHE_TTL)
        /\ (pc[t] = "respond" /\ via[t] = "fresh") =>
              (entry[t] # None /\ Age(t) < CACHE_TTL /\ data[t] = entry[t].value)
C4_Freshness == [][C4_FreshStep]_vars /\ []C4_FetchOnlyWhenNotFresh

\* C4 witness: a second call, CACHE_TTL - 1 after the one successful fetch, has
\* returned the stored object without a second fetch.
C4_Witness ==
    \E t \in Threads :
        /\ pc[t] = "respond" /\ via[t] = "fresh"
        /\ Age(t) = CACHE_TTL - 1
        /\ Len(heap) = 1
        /\ data[t] = 1
        /\ \A u \in Threads : pc[u] \notin {"fetch", "returned"}


\* ------------------------------------------------------ the composed system
\* Thread t has answered a request made during the outage, for a key that held a
\* positive hash rate when the outage began, less than CACHE_STALE_TTL after that
\* value was fetched (so the outage itself is shorter than CACHE_STALE_TTL).
AnsweredDuringShortOutage(t) ==
    /\ pc[t] = "done"
    /\ req[t].route \in Routes
    /\ outage /\ req[t].during
    /\ goodAtOutage[req[t].key] # None
    /\ clock - goodAtOutage[req[t].key].ts < CACHE_STALE_TTL

\* C1 as stated: a request answered during an outage shorter than CACHE_STALE_TTL,
\* for a key fetched with a positive hash rate before the outage, gets fetched
\* hash-rate data: never an error, never the zero-hashrate "unavailable" result.
C1_OutageMasked ==
    \A t \in Threads : AnsweredDuringShortOutage(t) =>
        /\ resp[t].status = 200
        /\ resp[t].source # "unavailable"
        /\ resp[t].hashrate_ehs > 0


\* ---------------------------------------------------------- _mempool_period
\* The ascending table of buckets: upper bound in days, token.
Buckets ==
    << <<3, "3d">>, <<7, "1w">>, <<14, "2w">>, <<30, "1m">>, <<90, "3m">>,
       <<180, "6m">>, <<365, "1y">>, <<730, "2y">>, <<1095, "3y">> >>
\* The position of a token in the table; "all" comes after every bucket.
Rank(token) ==
    IF \E i \in DOMAIN Buckets : Buckets[i][2] = token
    THEN CHOOSE i \in DOMAIN Buckets : Buckets[i][2] = token
    ELSE Len(Buckets) + 1
\* The buckets that cover a day count.
Covering(d) == {i \in DOMAIN Buckets : Buckets[i][1] >= d}
SmallestCovering(d) ==
    IF Covering(d) = {} THEN "all"
    ELSE Buckets[CHOOSE i \in Covering(d) : \A j \in Covering(d) : i <= j][2]

\* C12: for every days >= 0, _mempool_period returns the smallest bucket of the table
\* whose inclusive upper bound is >= days, and "all" when days > 1095; it returns a
\* token for every input and its result never goes down as days goes up.
C12_PeriodMapping ==
    periodDays >= 0 =>
        /\ period = SmallestCovering(periodDays)
        /\ period \in {Buckets[i][2] : i \in DOMAIN Buckets} \cup {"all"}
        /\ periodDays > 1095 <=> period = "all"
        /\ \A d \in 0..periodDays : Rank(mempool_period(d)) <= Rank(period)
        /\ periodDays = 3 => period = "3d"
        /\ periodDays = 4 => period = "1w"
        /\ periodDays = 1095 => period = "3y"
        /\ periodDays = 1096 => period = "all"

\* C12 witness: the first day count beyond the largest bucket maps to "all".
C12_Witness == periodDays = 1096 /\ period = "all"

\* ------------------------------------------------------------ retry timing
\* The sleeps of a log, in order.
SleepsOf(log) == SelectSeq(log, LAMBDA ev : ev.ev = "sleep")
\* Attempts 1 and 2 failed and attempt 3 succeeded.
FailFailSucceed ==
    retryIn # None /\ retryIn.oks = <<FALSE, FALSE, TRUE>>

\* C13 as stated: a call that fails on attempts 1 and 2 and succeeds on attempt 3 is
\* invoked exactly 3 times with two sleeps, each >= 0.5s and < 1.5s.
C13_RetryTimingAsStated ==
    FailFailSucceed =>
        /\ Requests(retryOut.log) = 3
        /\ Len(SleepsOf(retryOut.log)) = 2
        /\ \A i \in 1..2 : SleepsOf(retryOut.log)[i].delay >= 5 /\ SleepsOf(retryOut.log)[i].delay < 15

\* C13 amended: such a call is invoked exactly 3 times with two sleeps; the sleep after
\* failed attempt index i is base_delay * 2^i plus the jitter drawn, between
\* base_delay * 2^i and base_delay * 2^i + 0.5s inclusive: the first within
\* [0.5s, 1.0s], the second within [1.0s, 1.5s], 1.5s included.
C13_RetryTiming ==
    FailFailSucceed =>
        /\ ~retryOut.raised
        /\ Requests(retryOut.log) = 3
        /\ Len(SleepsOf(retryOut.log)) = 2
        /\ \A i \in 1..2 :
              LET sl == SleepsOf(retryOut.log)[i]
              IN /\ sl.attempt = i - 1
                 /\ sl.delay = base_delay * Pow2(i - 1) + retryIn.jit[i]
                 /\ sl.delay >= base_delay * Pow2(i - 1)
                 /\ sl.delay <= base_delay * Pow2(i - 1) + 5
                 /\ sl.delay >= 5 /\ sl.delay <= 15

\* C13 witness: the second sleep is 1.5s.
C13_Witness ==
    /\ FailFailSucceed
    /\ SleepsOf(retryOut.log)[2].delay = 15
    /\ SleepsOf(retryOut.log)[1].delay = 5


\* ------------------------------------------------ the cache under overlap
\* An entry is one that a single store wrote: its value is a finished dict of the
\* heap and its ts is the ts that dict was stored with.
WrittenTogether(e) ==
    /\ e.value \in DOMAIN heap
    /\ writes[e.value] = e.ts
    /\ {"source", "hashrate_ehs", "history"} \subseteq heap[e.value].keys

\* C11: whatever the overlap of cached_get calls, every entry in the map and every
\* entry a call has read is a (value, ts) pair that one call wrote together, the
\* value a finished dict.
C11_ReadConsistency ==
    /\ Len(writes) = Len(heap)
    /\ \A k \in KeySpace : cache[k] # None => WrittenTogether(cache[k])
    /\ \A t \in Threads : entry[t] # None => WrittenTogether(entry[t])

\* C11 witness: a call still fetching holds the entry of the first store while an
\* overlapping call on the same key has replaced it with its own.
C11_Witness ==
    \E t \in Threads : \E u \in Threads \ {t} :
        /\ pc[t] \in {"fetch", "returned"}
        /\ req[u].key = req[t].key
        /\ entry[t] = [value |-> 1, ts |-> 0]
        /\ cache[req[t].key] = [value |-> 2, ts |-> CACHE_TTL]

\* C14 as stated: a value returned through the fresh path or right after a
\* successful fetch carries no stale marker, at the return and when the route
\* handler reads it, under any interleaving.
C14_StaleOnlyAfterOwnFailure ==
    \A t \in Threads :
        (pc[t] = "respond" /\ via[t] \in {"fresh", "fetched"}) => ~heap[data[t]].stale

\* C15 as stated: every key present in the cache map is a day count within [0, 1095].
C15_KeysClamped ==
    \A k \in KeySpace : cache[k] # None => (0 <= k /\ k <= MaxDays)

\* The step is thread t's successful store under key k.
StoreStep(t, k) ==
    /\ pc[t] = "returned" /\ ~result[t].raised /\ req[t].key = k
    /\ pc'[t] = "respond" /\ via'[t] = "fetched"

\* C16: an entry is created or overwritten only by a successful fetch for its key and
\* is never removed; a call leaves the entries of the other keys as they are, and a
\* call that takes the fresh path or whose fetch fails leaves every entry as it is.
C16_LifecycleStep ==
    /\ \A k \in KeySpace :
          /\ cache[k] # None => cache'[k] # None
          /\ cache'[k] # cache[k] =>
                /\ \E t \in Threads : StoreStep(t, k)
                /\ cache'[k].value \notin DOMAIN heap
    /\ \A t \in Threads :
          (pc'[t] # pc[t] /\ via'[t] \in {"fresh", "stale", "raise"}) => cache' = cache
    /\ \A t \in Threads : \A k \in KeySpace :
          (pc'[t] # pc[t] /\ req[t].key # k) => cache'[k] = cache[k]
C16_EntryLifecycle == [][C16_LifecycleStep]_vars

\* C16 witness: one key holds its first entry while another key's entry has been
\* overwritten by a later successful fetch.
C16_Witness ==
    \E k1 \in KeySpace : \E k2 \in KeySpace \ {k1} :
        /\ cache[k1] # None /\ cache[k1].value = 1
        /\ cache[k2] # None /\ cache[k2].value = 3

\* C17: nothing holds a call back while another call fetches the same key: a call
\* that read no entry, or one of age >= CACHE_TTL, goes on to invoke fetch_fn, and a
\* call about to invoke fetch_fn can always do so.
C17_FetchStep ==
    \A t \in Threads :
        (pc[t] = "cg_now" /\ (entry[t] = None \/ clock - entry[t].ts >= CACHE_TTL)
            /\ pc'[t] # pc[t]) => pc'[t] = "fetch"
C17_FetchEnabled ==
    \A t \in Threads : (pc[t] = "fetch" /\ req[t].route \in Routes) => ENABLED FetchFn(t)
C17_NoSingleFlight == [][C17_FetchStep]_vars /\ []C17_FetchEnabled

\* C17 witness: two overlapping calls on the same key, which read the same entry
\* past CACHE_TTL, are both in fetch_fn.
C17_Witness ==
    \E t \in Threads : \E u \in Threads \ {t} :
        /\ req[t].key = req[u].key
        /\ pc[t] = "returned" /\ pc[u] = "returned"
        /\ entry[t] # None /\ entry[t] = entry[u]
        /\ Age(t) >= CACHE_TTL /\ Age(u) >= CACHE_TTL

\* C19 as stated: the ts stored under a key never decreases, overlapping calls included.
C19_TsStep ==
    \A k \in KeySpace : cache[k] # None => cache'[k].ts >= cache[k].ts
C19_TsNeverDecreases == [][C19_TsStep]_vars


\* ------------------------------------------- the sentinel in the cache
\* The dict under heap index i is the "unavailable" one.
IsUnavailable(i) == heap[i].source = "unavailable" /\ heap[i].hashrate_ehs = 0

\* C18: cached_get stores whatever fetch_fn returned, the "unavailable" dict included,
\* with ts = now, in place of the key's earlier entry; a call that reads that entry
\* within CACHE_TTL returns it without contacting any source, outage or not.
C18_StoreStep ==
    \A t \in Threads :
        /\ (pc[t] = "returned" /\ req[t].route \in Routes /\ pc'[t] # pc[t]) =>
              /\ cache'[req[t].key] = [value |-> Len(heap) + 1, ts |-> now[t]]
              /\ heap'[Len(heap) + 1] = result[t].value
              /\ data'[t] = Len(heap) + 1
        /\ (pc[t] = "cg_now" /\ entry[t] # None /\ IsUnavailable(entry[t].value)
               /\ clock - entry[t].ts < CACHE_TTL /\ pc'[t] # pc[t]) =>
              /\ pc'[t] = "respond"
              /\ data'[t] = entry[t].value
              /\ cache' = cache
              /\ UNCHANGED passVars
C18_ServedUncontacted ==
    \A t \in Threads :
        (pc[t] = "respond" /\ via[t] = "fresh") =>
            (sources[t] = <<>> /\ invoked[t] = <<>> /\ lastCall[t] = NoCall)
C18_SentinelCached == [][C18_StoreStep]_vars /\ []C18_ServedUncontacted

\* C18 witness: the outage is over, the "unavailable" dict stored during it has
\* replaced the positive entry of before, and a call has returned it as fresh.
C18_Witness ==
    \E t \in Threads :
        /\ ~outage
        /\ pc[t] = "respond" /\ via[t] = "fresh"
        /\ Len(heap) = 2
        /\ heap[1].hashrate_ehs > 0
        /\ IsUnavailable(2)
        /\ data[t] = 2
        /\ cache[req[t].key] = [value |-> 2, ts |-> CACHE_TTL]

\* ------------------------------------------------- the cost of one pass
\* The requests a pass may make: one for luxor when it is a candidate, max_retries
\* for each free source.
MaxPassRequests(key) == (IF key # "" THEN 1 ELSE 0) + 3 * max_retries

\* C20: a pass makes at most 1 + 3 * 3 = 10 upstream requests with the credential and
\* at most 9 without, at most 2 sleeps per free source, records at most one diagnostic
\* per candidate, in priority order, and, every request returning or failing, ends.
C20_PassBounds ==
    \A t \in Threads :
        /\ lastCall[t].total <= MaxPassRequests(LUXOR_API_KEY)
        /\ lastCall[t].total <= 10
        /\ LUXOR_API_KEY = "" => lastCall[t].total <= 9
        /\ lastCall[t].sleeps <= 2
        /\ lastCall[t].name = "luxor" => lastCall[t].sleeps = 0
        /\ Len(errors[t]) <= Len(invoked[t])
        /\ Len(invoked[t]) <= Len(sources[t])
        /\ SourcesNamed(errors[t]) = RaisedNames(invoked[t])
        /\ \A n \in SourceNames : Occurrences(SourcesNamed(errors[t]), n) <= 1
        /\ \A i \in DOMAIN errors[t] : \A j \in DOMAIN errors[t] :
              i < j => Rank4(errors[t][i][1]) < Rank4(errors[t][j][1])
C20_PassEnds ==
    \A t \in Workers : (pc[t] \in {"fetch", "g_loop"}) ~> (pc[t] = "returned")
C20_PassTerminates == []C20_PassBounds /\ C20_PassEnds

\* C20 witness: with the credential, every candidate failed through all its requests:
\* ten requests, four diagnostics.
C20_Witness ==
    \E t \in Threads :
        /\ pc[t] = "returned"
        /\ lastCall[t].total = 10
        /\ Len(errors[t]) = 4


====
